---- MODULE Spec2Model ----
(***************************************************************************)
(* brozzler/robots.py: the process-wide registry _robots_caches, the       *)
(* get-or-create function _robots_cache and the retry loop of              *)
(* is_permitted_by_robots, called by concurrent crawl worker threads.      *)
(*                                                                         *)
(* A thread is interleaved with the others at the accesses to shared       *)
(* state: the membership test of line 61, the store of line 71, and the    *)
(* lookup of line 73 followed by the invocation of allowed (lines          *)
(* 101-102).  The code between two such accesses touches only locals and   *)
(* belongs to the action of the access that follows it.  The lookup and    *)
(* the invocation are one action: what another thread does between the     *)
(* two either leaves the registry alone, and could as well come before     *)
(* the lookup, or stores a new RobotsCache, which the invocation neither   *)
(* reads nor writes, and could as well come after it.                      *)
(***************************************************************************)
EXTENDS Integers, Sequences, FiniteSets, TLC

\* ---- bounds of the model ------------------------------------------------
\* calls of is_permitted_by_robots each worker thread makes
MaxCalls == 2
\* gets counts the GETs of a site's robots.txt up to MaxGets: MaxGets or more
MaxGets == 2
\* user-agent groups of a robots.txt
MaxAgents == 3
\* characters of a client identity drawn from Chars
MaxLen == 3

\* ---- program constants --------------------------------------------------
\* robots.py:98  tries_left = 10
TriesLeft == 10

\* ---- inputs -------------------------------------------------------------
Workers == {"w1", "w2"}
SiteIds == {"s1", "s2"}
NoHeaders == [k \in {} |-> ""]
ExtraHeaders ==
    {NoHeaders, ("User-Agent" :> "hdr-agent") @@ ("X-Extra" :> "x")}
UserAgents == {"", "ua1"}
\* proxy=None is the empty string
Proxies == {"", "p1"}
\* site "s1" comes in two configurations, site "s2" in one
Sites ==
    { s \in [id : SiteIds, ignore_robots : BOOLEAN,
             user_agent : UserAgents, extra_headers : ExtraHeaders] :
        /\ (s.user_agent = "") = (s.extra_headers = NoHeaders)
        /\ s.id = "s2" => s.user_agent = "" }
\* the arguments of the concurrent calls: site "s1" as two workers may hold
\* it (reconfigured, and behind another proxy), site "s2", and both ignored
Arg(i, ign, ua, hd, p) ==
    [site |-> [id |-> i, ignore_robots |-> ign, user_agent |-> ua,
               extra_headers |-> hd],
     proxy |-> p]
WithHeaders == ("User-Agent" :> "hdr-agent") @@ ("X-Extra" :> "x")
ConcurrentArgs ==
    {Arg("s1", FALSE, "", NoHeaders, ""),
     Arg("s1", FALSE, "ua1", WithHeaders, "p1"),
     Arg("s2", FALSE, "", NoHeaders, "p1"),
     Arg("s1", TRUE, "", NoHeaders, ""),
     Arg("s2", TRUE, "", NoHeaders, "p1")}
\* the arguments of the calls of one thread alone: every site, every proxy
AllArgs == [site : Sites, proxy : Proxies]
NoSite == [id |-> "", ignore_robots |-> FALSE, user_agent |-> "",
           extra_headers |-> NoHeaders]

\* ---- exceptions ---------------------------------------------------------
\* what an exception wraps as args[0]: the ReachedLimit raised by
\* SessionRaiseOn420.get, a requests ProxyError, or any other error
Cause(c, m, p) == [cls |-> c, warcprox_meta |-> m, http_payload |-> p]
ReachedLimits == {Cause("ReachedLimit", "meta1", "body1"),
                  Cause("ReachedLimit", "meta2", "body2")}
Causes == ReachedLimits \cup {Cause("requests.ProxyError", "", ""),
                              Cause("OSError", "", "")}
\* an exception raised by RobotsCache.allowed: its class and its args
Exceptions ==
    [cls : {"ServerError", "Exception"},
     args : {<<>>} \cup {<<c>> : c \in Causes}]
NoExc == [cls |-> "", args |-> <<>>]

\* how a call of a function ends
Returns(b) == [kind |-> "return", val |-> b, exc |-> NoExc]
Raises(e) == [kind |-> "raise", val |-> FALSE, exc |-> e]
Pending == [kind |-> "none", val |-> FALSE, exc |-> NoExc]

\* how an invocation of RobotsCache.allowed can end: every way, and the ways
\* the concurrent calls are checked with (the url is allowed, or the fetch
\* fails with a transient error; what the registry does depends on neither
\* the boolean nor the kind of error)
AllOutcomes == {Returns(b) : b \in BOOLEAN} \cup {Raises(e) : e \in Exceptions}
Transient == [cls |-> "ServerError", args |-> <<Cause("OSError", "", "")>>]
ConcurrentOutcomes == {Returns(TRUE), Raises(Transient)}

VARIABLES
    _robots_caches,  \* site id -> index in heap of its RobotsCache, 0: no key
    heap,            \* every RobotsCache constructed, with its session
    gets,            \* site id -> GETs of robots.txt issued by its sessions
    pc,              \* worker -> where the thread is
    site,            \* worker -> the site argument of its call
    proxy,           \* worker -> the proxy argument of its call
    tries_left,      \* worker -> the local tries_left
    cache,           \* worker -> the RobotsCache _robots_cache returned, 0: none
    hit,             \* worker -> line 61 found the key present
    invocations,     \* worker -> invocations of allowed by its call
    warnings,        \* worker -> logging.warn entries written by its call
    errors,          \* worker -> logging.error entries written by its call
    last,            \* worker -> how the last invocation of allowed ended
    ret,             \* worker -> how its call ended
    ncalls,          \* worker -> calls it has made
    first,           \* worker -> the RobotsCache of its call's first invocation
    res,             \* SessionRaiseOn420.get: the response of super().get
    got,             \* SessionRaiseOn420.get: how the call ended
    agents,          \* Rules.__getitem__: self.agents, in iteration order
    agent,           \* Rules.__getitem__: the agent argument
    rules            \* Rules.__getitem__: how the call ended

calls == <<_robots_caches, heap, gets, pc, site, proxy, tries_left, cache, hit,
           invocations, warnings, errors, last, ret, ncalls, first>>

\* the state of the two functions checked on their own
pure == <<res, got, agents, agent, rules>>

vars == <<calls, pure>>

shared == <<_robots_caches, heap, gets>>

\* ---- _robots_cache ------------------------------------------------------
DefaultHeaders == ("User-Agent" :> "python-requests")

\* dict.update
Update(d, e) ==
    [k \in DOMAIN d \cup DOMAIN e |-> IF k \in DOMAIN e THEN e[k] ELSE d[k]]

\* lines 62-70: the session of a new RobotsCache
NewSession(s, p) ==
    LET h1 == IF s.extra_headers # NoHeaders
              THEN Update(DefaultHeaders, s.extra_headers)
              ELSE DefaultHeaders
        h2 == IF s.user_agent # ""
              THEN Update(h1, ("User-Agent" :> s.user_agent))
              ELSE h1
    IN  [verify |-> FALSE,
         proxies |-> IF p # ""
                     THEN {<<"http", "http://" \o p>>, <<"https", "http://" \o p>>}
                     ELSE {},
         headers |-> h2]

\* line 71: reppy.cache.RobotsCache(session=req_sesh), nothing fetched yet
NewRobotsCache(s, p) ==
    [site_id |-> s.id, session |-> NewSession(s, p), rules |-> FALSE]

\* line 61: site.id in _robots_caches
HasKey(id) == _robots_caches[id] # 0

\* no call of SessionRaiseOn420.get or Rules.__getitem__ under way
NoResponse == [status_code |-> 0, headers |-> NoHeaders, text |-> ""]
NoCall == [kind |-> "none"]
InitPure ==
    /\ res = NoResponse
    /\ got = NoCall
    /\ agents = <<>>
    /\ agent = <<>>
    /\ rules = NoCall

InitCalls ==
    /\ _robots_caches = [i \in SiteIds |-> 0]
    /\ heap = <<>>
    /\ gets = [i \in SiteIds |-> 0]
    /\ pc = [w \in Workers |-> "idle"]
    /\ site = [w \in Workers |-> NoSite]
    /\ proxy = [w \in Workers |-> ""]
    /\ tries_left = [w \in Workers |-> 0]
    /\ cache = [w \in Workers |-> 0]
    /\ hit = [w \in Workers |-> FALSE]
    /\ invocations = [w \in Workers |-> 0]
    /\ warnings = [w \in Workers |-> 0]
    /\ errors = [w \in Workers |-> 0]
    /\ last = [w \in Workers |-> Pending]
    /\ ret = [w \in Workers |-> Pending]
    /\ ncalls = [w \in Workers |-> 0]
    /\ first = [w \in Workers |-> 0]

Init == InitCalls /\ InitPure

\* the test of line 95 left out
IgnoreRobots_Never(s) == FALSE

\* line 95: if site.ignore_robots
IgnoreRobots(s) == s.ignore_robots

\* tries_left set once for the thread and kept from call to call
Call_KeepsBudget(w, s, p) ==
    /\ pc[w] \in {"idle", "done"}
    /\ ncalls[w] < MaxCalls
    /\ ncalls' = [ncalls EXCEPT ![w] = @ + 1]
    /\ site' = [site EXCEPT ![w] = s]
    /\ proxy' = [proxy EXCEPT ![w] = p]
    /\ cache' = [cache EXCEPT ![w] = 0]
    /\ first' = [first EXCEPT ![w] = 0]
    /\ hit' = [hit EXCEPT ![w] = FALSE]
    /\ invocations' = [invocations EXCEPT ![w] = 0]
    /\ warnings' = [warnings EXCEPT ![w] = 0]
    /\ errors' = [errors EXCEPT ![w] = 0]
    /\ last' = [last EXCEPT ![w] = Pending]
    /\ IF IgnoreRobots(s)
       THEN /\ ret' = [ret EXCEPT ![w] = Returns(TRUE)]
            /\ pc' = [pc EXCEPT ![w] = "done"]
            /\ tries_left' = [tries_left EXCEPT ![w] = 0]
       ELSE /\ ret' = [ret EXCEPT ![w] = Pending]
            /\ pc' = [pc EXCEPT ![w] = "L61"]
            /\ tries_left' = [tries_left EXCEPT ![w] =
                                   IF ncalls[w] = 0 THEN TriesLeft ELSE @]
    /\ UNCHANGED shared

\* lines 95-98: a worker calls is_permitted_by_robots(s, url, p)
Call(w, s, p) ==
    /\ pc[w] \in {"idle", "done"}
    /\ ncalls[w] < MaxCalls
    /\ ncalls' = [ncalls EXCEPT ![w] = @ + 1]
    /\ site' = [site EXCEPT ![w] = s]
    /\ proxy' = [proxy EXCEPT ![w] = p]
    /\ cache' = [cache EXCEPT ![w] = 0]
    /\ first' = [first EXCEPT ![w] = 0]
    /\ hit' = [hit EXCEPT ![w] = FALSE]
    /\ invocations' = [invocations EXCEPT ![w] = 0]
    /\ warnings' = [warnings EXCEPT ![w] = 0]
    /\ errors' = [errors EXCEPT ![w] = 0]
    /\ last' = [last EXCEPT ![w] = Pending]
    /\ IF IgnoreRobots(s)
       THEN /\ ret' = [ret EXCEPT ![w] = Returns(TRUE)]
            /\ pc' = [pc EXCEPT ![w] = "done"]
            /\ tries_left' = [tries_left EXCEPT ![w] = 0]
       ELSE /\ ret' = [ret EXCEPT ![w] = Pending]
            /\ pc' = [pc EXCEPT ![w] = "L61"]
            /\ tries_left' = [tries_left EXCEPT ![w] = TriesLeft]
    /\ UNCHANGED shared

\* line 61: if not site.id in _robots_caches
Check(w) ==
    /\ pc[w] = "L61"
    /\ hit' = [hit EXCEPT ![w] = HasKey(site[w].id)]
    /\ cache' = [cache EXCEPT ![w] = 0]
    /\ pc' = [pc EXCEPT ![w] = IF HasKey(site[w].id) THEN "L73" ELSE "L62"]
    /\ UNCHANGED <<shared, site, proxy, tries_left, invocations,
                   warnings, errors, last, ret, ncalls, first>>

\* one RobotsCache stored for every site, whatever site.id is
Create_OneCache(w) ==
    /\ pc[w] = "L62"
    /\ heap' = Append(heap, NewRobotsCache(site[w], proxy[w]))
    /\ _robots_caches' = [i \in SiteIds |-> Len(heap) + 1]
    /\ pc' = [pc EXCEPT ![w] = "L73"]
    /\ UNCHANGED <<gets, site, proxy, tries_left, cache, hit, invocations,
                   warnings, errors, last, ret, ncalls, first>>

\* lines 62-71: build the session and store a new RobotsCache under site.id
Create(w) ==
    /\ pc[w] = "L62"
    /\ heap' = Append(heap, NewRobotsCache(site[w], proxy[w]))
    /\ _robots_caches' = [_robots_caches EXCEPT ![site[w].id] = Len(heap) + 1]
    /\ pc' = [pc EXCEPT ![w] = "L73"]
    /\ UNCHANGED <<gets, site, proxy, tries_left, cache, hit, invocations,
                   warnings, errors, last, ret, ncalls, first>>

\* ---- is_permitted_by_robots: the retry loop -----------------------------
\* e.args[0] of an exception without arguments
IndexError == [cls |-> "IndexError", args |-> <<>>]

\* line 111: brozzler.ProxyError(e)
BrozzlerProxyError(e) == [cls |-> "brozzler.ProxyError", args |-> <<e>>]

\* RobotsCache.allowed on the cache rc: robots.txt is fetched through the
\* session when rc holds no rules for the site yet, and only a fetch fails
Outcomes(rc) ==
    {Returns(b) : b \in BOOLEAN}
        \cup (IF rc.rules THEN {} ELSE {Raises(e) : e \in Exceptions})

\* how one round of the loop ends: what the call has done (Pending: the loop
\* goes round again), the tries left and the level of the entry logged
Round(r, tl, lg) == [ret |-> r, tries_left |-> tl, log |-> lg]

\* line 103: return result
OnResult(result, tl) == Round(Returns(result), tl, "")

\* the except clause returning True once the tries are used up
OnException_FailOpen(e, tl) ==
    IF e.cls = "ServerError" /\ e.args = <<>>
    THEN Round(Raises(IndexError), tl, "")
    ELSE IF e.cls = "ServerError" /\ e.args[1].cls = "ReachedLimit"
    THEN Round(Raises(e.args[1]), tl, "")
    ELSE IF e.args = <<>>
    THEN Round(Raises(IndexError), tl, "")
    ELSE IF e.args[1].cls = "requests.ProxyError"
    THEN Round(Raises(BrozzlerProxyError(e)), tl, "")
    ELSE IF tl > 0
    THEN Round(Pending, tl - 1, "warn")
    ELSE Round(Returns(TRUE), tl, "error")

\* the except clause looking at the tries left before it looks for a
\* wrapped ReachedLimit
OnException_BudgetFirst(e, tl) ==
    IF e.cls = "ServerError" /\ e.args = <<>>
    THEN Round(Raises(IndexError), tl, "")
    ELSE IF tl > 0 /\ e.cls = "ServerError" /\ e.args[1].cls = "ReachedLimit"
    THEN Round(Raises(e.args[1]), tl, "")
    ELSE IF e.args = <<>>
    THEN Round(Raises(IndexError), tl, "")
    ELSE IF e.args[1].cls = "requests.ProxyError"
    THEN Round(Raises(BrozzlerProxyError(e)), tl, "")
    ELSE IF tl > 0
    THEN Round(Pending, tl - 1, "warn")
    ELSE Round(Returns(FALSE), tl, "error")

\* the except clause raising the wrapped requests ProxyError itself
OnException_RaisesWrapped(e, tl) ==
    IF e.cls = "ServerError" /\ e.args = <<>>
    THEN Round(Raises(IndexError), tl, "")
    ELSE IF e.cls = "ServerError" /\ e.args[1].cls = "ReachedLimit"
    THEN Round(Raises(e.args[1]), tl, "")
    ELSE IF e.args = <<>>
    THEN Round(Raises(IndexError), tl, "")
    ELSE IF e.args[1].cls = "requests.ProxyError"
    THEN Round(Raises(e.args[1]), tl, "")
    ELSE IF tl > 0
    THEN Round(Pending, tl - 1, "warn")
    ELSE Round(Returns(FALSE), tl, "error")

\* the except clause retrying without the warning of lines 114-116
OnException_NoWarning(e, tl) ==
    IF e.cls = "ServerError" /\ e.args = <<>>
    THEN Round(Raises(IndexError), tl, "")
    ELSE IF e.cls = "ServerError" /\ e.args[1].cls = "ReachedLimit"
    THEN Round(Raises(e.args[1]), tl, "")
    ELSE IF e.args = <<>>
    THEN Round(Raises(IndexError), tl, "")
    ELSE IF e.args[1].cls = "requests.ProxyError"
    THEN Round(Raises(BrozzlerProxyError(e)), tl, "")
    ELSE IF tl > 0
    THEN Round(Pending, tl - 1, "")
    ELSE Round(Returns(FALSE), tl, "error")

\* the except clause retrying without line 117, tries_left -= 1
OnException_NoDecrement(e, tl) ==
    IF e.cls = "ServerError" /\ e.args = <<>>
    THEN Round(Raises(IndexError), tl, "")
    ELSE IF e.cls = "ServerError" /\ e.args[1].cls = "ReachedLimit"
    THEN Round(Raises(e.args[1]), tl, "")
    ELSE IF e.args = <<>>
    THEN Round(Raises(IndexError), tl, "")
    ELSE IF e.args[1].cls = "requests.ProxyError"
    THEN Round(Raises(BrozzlerProxyError(e)), tl, "")
    ELSE IF tl > 0
    THEN Round(Pending, tl, "warn")
    ELSE Round(Returns(FALSE), tl, "error")

\* lines 104-122: the except clause, for the exception e with tl tries left
OnException(e, tl) ==
    IF e.cls = "ServerError" /\ e.args = <<>>
    THEN Round(Raises(IndexError), tl, "")                      \* line 106
    ELSE IF e.cls = "ServerError" /\ e.args[1].cls = "ReachedLimit"
    THEN Round(Raises(e.args[1]), tl, "")                       \* line 107
    ELSE IF e.args = <<>>
    THEN Round(Raises(IndexError), tl, "")                      \* line 109
    ELSE IF e.args[1].cls = "requests.ProxyError"
    THEN Round(Raises(BrozzlerProxyError(e)), tl, "")           \* line 111
    ELSE IF tl > 0
    THEN Round(Pending, tl - 1, "warn")                         \* lines 114-117
    ELSE Round(Returns(FALSE), tl, "error")                     \* lines 119-122

\* line 73 and lines 101-122: _robots_cache returns the RobotsCache stored
\* under site.id, allowed is invoked on it and ends as out, and the loop
\* returns, raises or goes round again
Allowed(w, out) ==
    /\ pc[w] = "L73"
    /\ cache' = [cache EXCEPT ![w] = _robots_caches[site[w].id]]
    /\ first' = [first EXCEPT ![w] = IF @ = 0 THEN cache'[w] ELSE @]
    /\ out \in Outcomes(heap[cache'[w]])
    /\ invocations' = [invocations EXCEPT ![w] = @ + 1]
    /\ last' = [last EXCEPT ![w] = out]
    /\ IF heap[cache'[w]].rules
       THEN UNCHANGED <<heap, gets>>
       ELSE /\ gets' = [gets EXCEPT ![heap[cache'[w]].site_id] =
                               IF @ < MaxGets THEN @ + 1 ELSE @]
            /\ heap' = [heap EXCEPT ![cache'[w]].rules = (out.kind = "return")]
    /\ LET r == IF out.kind = "return"
                THEN OnResult(out.val, tries_left[w])
                ELSE OnException(out.exc, tries_left[w])
       IN  /\ ret' = [ret EXCEPT ![w] = r.ret]
           /\ tries_left' = [tries_left EXCEPT ![w] = r.tries_left]
           /\ warnings' = [warnings EXCEPT ![w] =
                              IF r.log = "warn" THEN @ + 1 ELSE @]
           /\ errors' = [errors EXCEPT ![w] =
                            IF r.log = "error" THEN @ + 1 ELSE @]
           /\ pc' = [pc EXCEPT ![w] = IF r.ret = Pending THEN "L61" ELSE "done"]
    /\ UNCHANGED <<_robots_caches, site, proxy, hit, ncalls>>

\* the steps of the worker w, calling with arguments of args and with
\* invocations of allowed ending as in outs
Step(w, args, outs) ==
    /\ \/ \E a \in args : Call(w, a.site, a.proxy)
       \/ Check(w)
       \/ Create(w)
       \/ \E out \in outs : Allowed(w, out)
    /\ UNCHANGED pure

\* concurrent worker threads
Next == \E w \in Workers : Step(w, ConcurrentArgs, ConcurrentOutcomes)

Spec == Init /\ [][Next]_vars

\* one thread alone, with every argument and every outcome of allowed
NextLoop == Step("w1", AllArgs, AllOutcomes)

SpecLoop == Init /\ [][NextLoop]_vars

\* a thread inside a call runs on: the interpreter schedules it, and every
\* invocation of allowed returns or raises
Run(w) == Step(w, {}, AllOutcomes)

SpecLoopFair == SpecLoop /\ WF_vars(Run("w1"))

\* ---- SessionRaiseOn420.get ----------------------------------------------
\* the responses super().get hands back: a status, the marker header under
\* one of two spellings or no marker header, and a body
StatusCodes == {200, 404, 420, 500, 503}
MarkerNames == {"warcprox-meta", "Warcprox-Meta"}
MetaTexts == {"{}", "[1]", "[1, 2]", "not json"}
Bodies == {"", "body"}
Responses ==
    [status_code : StatusCodes,
     headers : {("content-type" :> "text/plain")}
                 \cup {(n :> v) : n \in MarkerNames, v \in MetaTexts},
     text : Bodies]

\* res.headers is a requests CaseInsensitiveDict: keys compare lower-cased
LowerName(n) == IF n = "Warcprox-Meta" THEN "warcprox-meta" ELSE n

\* line 54: 'warcprox-meta' in res.headers
HasHeader(h, name) == \E n \in DOMAIN h : LowerName(n) = name

\* line 56: res.headers['warcprox-meta']
HeaderValue(h, name) == h[CHOOSE n \in DOMAIN h : LowerName(n) = name]

\* line 56: json.loads, on the texts of MetaTexts
JsonValue(t, items) == [ok |-> TRUE, type |-> t, items |-> items]
JsonLoads(text) ==
    CASE text = "{}" -> JsonValue("object", <<>>)
      [] text = "[1]" -> JsonValue("array", <<1>>)
      [] text = "[1, 2]" -> JsonValue("array", <<1, 2>>)
      [] OTHER -> [ok |-> FALSE, type |-> "JSONDecodeError", items |-> <<>>]

\* lines 55-57: brozzler.ReachedLimit(warcprox_meta=..., http_payload=...)
ReachedLimit(meta, payload) ==
    [kind |-> "raise", cls |-> "ReachedLimit", warcprox_meta |-> meta,
     http_payload |-> payload]

\* lines 52-59: SessionRaiseOn420.get on the response r of super().get
SessionGet(r) ==
    IF r.status_code = 420 /\ HasHeader(r.headers, "warcprox-meta")
    THEN LET meta == JsonLoads(HeaderValue(r.headers, "warcprox-meta"))
         IN  IF meta.ok
             THEN ReachedLimit(meta, r.text)
             ELSE [kind |-> "raise", cls |-> "JSONDecodeError"]
    ELSE [kind |-> "return", response |-> r]

InitGet ==
    /\ InitCalls
    /\ res \in Responses
    /\ got = NoCall
    /\ agents = <<>>
    /\ agent = <<>>
    /\ rules = NoCall

\* lines 52-59: the session's get returns or raises
Get ==
    /\ got = NoCall
    /\ got' = SessionGet(res)
    /\ UNCHANGED <<calls, res, agents, agent, rules>>

NextGet == Get

SpecGet == InitGet /\ [][NextGet]_vars

\* ---- Rules.__getitem__ --------------------------------------------------
\* a string is the sequence of its characters
Star == <<"*">>
Bot == <<"b", "o", "t">>
ExampleBot == <<"e", "x", "a", "m", "p", "l", "e", "b", "o", "t", "/", "1", ".", "0">>
ExampleBotMixed == <<"E", "x", "a", "m", "p", "l", "e", "B", "o", "t", "/", "1", ".", "0">>
UnknownClient == <<"u", "n", "k", "n", "o", "w", "n", "c", "l", "i", "e", "n", "t", "/", "2", ".", "0">>
Chars == {"a", "A", "b", "*"}
Keys == {<<"a">>, <<"b">>, <<"a", "b">>, Star, Bot}

RECURSIVE StringsUpTo(_)
StringsUpTo(n) ==
    IF n = 0
    THEN {<<>>}
    ELSE LET shorter == StringsUpTo(n - 1)
         IN  shorter \cup {Append(t, c) : t \in shorter, c \in Chars}

\* the agent arguments: every short string, and three identities of crawlers
Identities ==
    StringsUpTo(MaxLen) \cup {ExampleBot, ExampleBotMixed, UnknownClient}

\* self.agents: a dict, its keys distinct, in the order it iterates them
RECURSIVE AgentsUpTo(_)
AgentsUpTo(n) ==
    IF n = 0
    THEN {<<>>}
    ELSE LET shorter == AgentsUpTo(n - 1)
         IN  shorter \cup
                 {Append(p[1], p[2]) :
                     p \in {q \in shorter \X Keys :
                               \A i \in 1..Len(q[1]) : q[1][i] # q[2]}}

\* str.lower, on the characters of Chars and of the three identities
LowerChar(c) ==
    CASE c = "A" -> "a"
      [] c = "B" -> "b"
      [] c = "E" -> "e"
      [] OTHER -> c
Lower(str) == [i \in 1..Len(str) |-> LowerChar(str[i])]

\* line 44: s in lc_agent
IsSubstring(k, str) ==
    \E i \in 0..(Len(str) - Len(k)) : SubSeq(str, i + 1, i + Len(k)) = k

\* self.agents[s], the group of the key s; a missing key gets None
Group(k) == [kind |-> "return", found |-> TRUE, group |-> k]
None == [kind |-> "return", found |-> FALSE, group |-> <<>>]

\* line 46: self.agents.get('*')
GetStar(ags) == IF \E i \in 1..Len(ags) : ags[i] = Star THEN Group(Star) ELSE None

\* lines 43-46: the loop over self.agents from its i-th key on
RECURSIVE Scan(_, _, _)
Scan(ags, i, lc_agent) ==
    IF i > Len(ags)
    THEN GetStar(ags)
    ELSE IF IsSubstring(ags[i], lc_agent)
    THEN Group(ags[i])
    ELSE Scan(ags, i + 1, lc_agent)

\* lines 37-46: _reppy_rules_getitem
RulesGetItem(ags, ag) == Scan(ags, 1, Lower(ag))

InitRules ==
    /\ InitCalls
    /\ res = NoResponse
    /\ got = NoCall
    /\ agents \in AgentsUpTo(MaxAgents)
    /\ agent \in Identities
    /\ rules = NoCall

\* lines 37-46: rules[agent] returns
GetItem ==
    /\ rules = NoCall
    /\ rules' = RulesGetItem(agents, agent)
    /\ UNCHANGED <<calls, res, got, agents, agent>>

NextRules == GetItem

SpecRules == InitRules /\ [][NextRules]_vars

TypeOK ==
    /\ \A w \in Workers : tries_left[w] \in 0..TriesLeft
    /\ \A w \in Workers : pc[w] \in {"idle", "L61", "L62", "L73", "done"}

\* ---- the outcomes of allowed, by what the claims call them --------------
\* a fetch error (reppy's ServerError) wrapping a ReachedLimit
WrapsReachedLimit(o) ==
    /\ o.kind = "raise"
    /\ o.exc.cls = "ServerError"
    /\ o.exc.args # <<>>
    /\ o.exc.args[1].cls = "ReachedLimit"

\* an error whose wrapped cause is a requests ProxyError
WrapsProxyError(o) ==
    /\ o.kind = "raise"
    /\ o.exc.args # <<>>
    /\ o.exc.args[1].cls = "requests.ProxyError"

\* an error with arguments that is neither of the two
IsTransient(o) ==
    /\ o.kind = "raise"
    /\ o.exc.args # <<>>
    /\ ~WrapsReachedLimit(o)
    /\ ~WrapsProxyError(o)

\* the RobotsCaches constructed for a site id, and the first of them
CachesOf(id) == {i \in 1..Len(heap) : heap[i].site_id = id}
FirstCache(id) == CHOOSE i \in CachesOf(id) : \A j \in CachesOf(id) : i <= j

\* ---- C1 -----------------------------------------------------------------
\* C1: a call has returned True only if site.ignore_robots is set or its
\* last invocation of allowed returned True; a call that ended on a transient
\* error with no tries left has returned False.
C1_FailClosed ==
    \A w \in Workers :
        /\ ret[w] = Returns(TRUE) =>
              site[w].ignore_robots \/ last[w] = Returns(TRUE)
        /\ (pc[w] = "done" /\ IsTransient(last[w])) =>
              tries_left[w] = 0 /\ ret[w] = Returns(FALSE)

C1_Witness ==
    \E w \in Workers :
        /\ pc[w] = "done"
        /\ IsTransient(last[w])
        /\ tries_left[w] = 0
        /\ ret[w] = Returns(FALSE)

\* ---- C2 -----------------------------------------------------------------
\* C2: in a call with ignore_robots unset whose invocations of allowed all
\* failed with transient errors (each logged one entry), allowed has been
\* invoked at most 10 times, and after the 10th failure the call has returned
\* False with exactly one error-level entry.
C2_Original ==
    \A w \in Workers :
        (~site[w].ignore_robots /\ warnings[w] + errors[w] = invocations[w]) =>
            /\ invocations[w] <= 10
            /\ invocations[w] = 10 =>
                  pc[w] = "done" /\ ret[w] = Returns(FALSE) /\ errors[w] = 1

\* ---- C3 -----------------------------------------------------------------
\* C3: at most one Session/RobotsCache pair is ever constructed for a site
\* id, and a caller of _robots_cache is returned the pair of the registry.
C3_Original ==
    /\ \A id \in SiteIds : Cardinality(CachesOf(id)) <= 1
    /\ \A w \in Workers :
          cache[w] # 0 => cache[w] = _robots_caches[site[w].id]

\* ---- C4 -----------------------------------------------------------------
\* C4: when an invocation of allowed fails with a ServerError wrapping a
\* ReachedLimit, the call has ended raising that very ReachedLimit, the
\* failure has logged nothing and taken nothing off tries_left, whatever
\* tries_left was.
C4_RateLimitPropagates ==
    \A w \in Workers :
        WrapsReachedLimit(last[w]) =>
            /\ pc[w] = "done"
            /\ ret[w] = Raises(last[w].exc.args[1])
            /\ warnings[w] = invocations[w] - 1
            /\ errors[w] = 0
            /\ tries_left[w] = TriesLeft - (invocations[w] - 1)

\* the ReachedLimit comes when no tries are left
C4_Witness ==
    \E w \in Workers :
        /\ WrapsReachedLimit(last[w])
        /\ tries_left[w] = 0
        /\ ret[w].kind = "raise"
        /\ ret[w].exc \in ReachedLimits

\* ---- C5 -----------------------------------------------------------------
\* C5: a call ends returning a boolean or raising ReachedLimit or
\* brozzler.ProxyError, and nothing else.
C5_Original ==
    \A w \in Workers :
        pc[w] = "done" =>
            \/ ret[w].kind = "return"
            \/ /\ ret[w].kind = "raise"
               /\ ret[w].exc.cls \in {"ReachedLimit", "brozzler.ProxyError"}

\* ---- C6 -----------------------------------------------------------------
\* C6: a call for a site with ignore_robots set has returned True at once,
\* without an invocation of allowed, and the step that makes the call leaves
\* the registry, the caches and the count of GETs as they were.
C6_IgnoreRobots ==
    [][\A w \in Workers :
          site'[w].ignore_robots =>
              /\ pc'[w] = "done"
              /\ ret'[w] = Returns(TRUE)
              /\ invocations'[w] = 0
              /\ ncalls'[w] # ncalls[w] => shared' = shared]_vars

\* the site ignored already has a RobotsCache in the registry
C6_Witness ==
    \E w \in Workers :
        /\ site[w].ignore_robots
        /\ pc[w] = "done"
        /\ ret[w] = Returns(TRUE)
        /\ HasKey(site[w].id)

C8_SuccessAfterTransient ==
    \A w \in Workers :
        (last[w].kind = "return" /\ invocations[w] - 1 <= 9) =>
            /\ pc[w] = "done"
            /\ ret[w] = Returns(last[w].val)
            /\ warnings[w] = invocations[w] - 1
            /\ errors[w] = 0

\* nine transient failures, then a success
C8_Witness ==
    \E w \in Workers :
        /\ invocations[w] = 10
        /\ last[w] = Returns(TRUE)
        /\ ret[w] = Returns(TRUE)
        /\ warnings[w] = 9

\* ---- C9 -----------------------------------------------------------------
\* C9: when the first calls of the two workers are for the same site id and
\* both have returned after one successful invocation of allowed, exactly
\* one GET of the site's robots.txt has been issued.
C9_Original ==
    \A id \in SiteIds :
        (\A w \in Workers :
            /\ pc[w] = "done"
            /\ ncalls[w] = 1
            /\ site[w].id = id
            /\ ~site[w].ignore_robots
            /\ invocations[w] = 1
            /\ last[w].kind = "return") => gets[id] = 1

\* ---- C10 ----------------------------------------------------------------
\* C10: a call of _robots_cache that found the site id in the registry is
\* returned the pair the first call created, and no session of a pair is
\* ever reconfigured.
C10_Original ==
    /\ [](\A w \in Workers :
            (hit[w] /\ cache[w] # 0) => cache[w] = FirstCache(site[w].id))
    /\ [][\A i \in 1..Len(heap) : heap'[i].session = heap[i].session]_vars

\* ---- C11 ----------------------------------------------------------------
\* C11: get raises ReachedLimit, with the metadata parsed from the marker
\* header and the body text, if and only if the status is 420 and the
\* response has the 'warcprox-meta' header; otherwise it returns the response
\* unchanged.
C11_Original ==
    got # NoCall =>
        IF res.status_code = 420 /\ HasHeader(res.headers, "warcprox-meta")
        THEN /\ got.kind = "raise"
             /\ got.cls = "ReachedLimit"
             /\ got.warcprox_meta.ok
             /\ got.warcprox_meta =
                    JsonLoads(HeaderValue(res.headers, "warcprox-meta"))
             /\ got.http_payload = res.text
        ELSE got = [kind |-> "return", response |-> res]

\* ---- C12 ----------------------------------------------------------------
\* the keys of self.agents, and those that occur in the lower-cased agent
KeysOf(ags) == {ags[i] : i \in 1..Len(ags)}
Matching(ags, ag) == {k \in KeysOf(ags) : IsSubstring(k, Lower(ag))}

\* (ii), (iii), the two examples, and the letter case of the agent
C12_Rest ==
    rules # NoCall =>
        /\ (Matching(agents, agent) = {} /\ Star \in KeysOf(agents)) =>
              rules = Group(Star)
        /\ (Matching(agents, agent) = {} /\ Star \notin KeysOf(agents)) =>
              rules = None
        /\ (KeysOf(agents) = {Bot, Star} /\ agent = ExampleBot) =>
              rules = Group(Bot)
        /\ (KeysOf(agents) = {Bot, Star} /\ agent = UnknownClient) =>
              rules = Group(Star)
        /\ rules = RulesGetItem(agents, Lower(agent))

\* C12: (i) the group of a non-wildcard key that occurs in the
\* lower-cased agent is returned whenever there is such a key; (ii) the group
\* of '*' when no key occurs in it and '*' is a key; (iii) None when neither.
C12_Original ==
    /\ rules # NoCall =>
          (Matching(agents, agent) \ {Star} # {} =>
              /\ rules.found
              /\ rules.group \in Matching(agents, agent) \ {Star})
    /\ C12_Rest

\* ---- C13 ----------------------------------------------------------------
\* C13: a call that has begun ends, returning or raising, whatever the
\* invocations of allowed do; a transient failure takes one off tries_left
\* and goes round again while tries are left, and ends the call when none is.
C13_Terminates ==
    /\ \A w \in Workers : (pc[w] \in {"L61", "L62", "L73"}) ~> (pc[w] = "done")
    /\ [][\A w \in Workers :
            (invocations'[w] = invocations[w] + 1 /\ IsTransient(last'[w])) =>
                IF tries_left[w] > 0
                THEN tries_left'[w] = tries_left[w] - 1 /\ pc'[w] = "L61"
                ELSE pc'[w] = "done"]_vars

\* a call ended by its last possible invocation of allowed
C13_Witness ==
    \E w \in Workers :
        /\ pc[w] = "done"
        /\ invocations[w] = TriesLeft + 1
        /\ ret[w].kind = "raise"

\* ---- C14 ----------------------------------------------------------------
\* C14: every invocation of allowed in a call is made on the RobotsCache the
\* call's first invocation was made on.
C14_Original ==
    \A w \in Workers : cache[w] # 0 => cache[w] = first[w]

\* ---- C15 ----------------------------------------------------------------
\* C15: once a site id has an entry in _robots_caches, no step removes the
\* entry or puts another RobotsCache in its place.
C15_Original ==
    [][\A id \in SiteIds :
          HasKey(id) => _robots_caches'[id] = _robots_caches[id]]_vars

\* ---- C16 ----------------------------------------------------------------
\* C16: a call with ignore_robots unset starts with tries_left = 10 whatever
\* happened before; the tries_left of a thread changes only when that thread
\* starts a call or when its own invocation of allowed fails with a transient
\* error, and then by one; so tries_left is 10 less the warnings of the call.
C16_BudgetPerCall ==
    [][\A w \in Workers :
          /\ (ncalls'[w] # ncalls[w] /\ ~site'[w].ignore_robots) =>
                tries_left'[w] = TriesLeft
          /\ tries_left'[w] # tries_left[w] =>
                \/ ncalls'[w] # ncalls[w]
                \/ /\ invocations'[w] = invocations[w] + 1
                   /\ IsTransient(last'[w])
                   /\ tries_left'[w] = tries_left[w] - 1
          /\ (ncalls'[w] > 0 /\ ~site'[w].ignore_robots) =>
                tries_left'[w] = TriesLeft - warnings'[w]]_vars

\* a thread begins its second call for a site while the other thread is
\* retrying for the same site
C16_Witness ==
    \E w, v \in Workers :
        /\ w # v
        /\ site[w].id = site[v].id
        /\ ncalls[w] = 2
        /\ pc[w] = "L61"
        /\ tries_left[w] = TriesLeft
        /\ pc[v] = "L61"
        /\ tries_left[v] = TriesLeft - 2

\* ---- C17 ----------------------------------------------------------------
\* C17: the entry of a site id changes only by the store of a call for that
\* site id, the session of a RobotsCache is never reconfigured and its rules
\* change only by a call for its site id, and two site ids never share a
\* RobotsCache.
C17_PerSite ==
    /\ [](\A a, b \in SiteIds :
            (a # b /\ HasKey(a) /\ HasKey(b)) =>
                _robots_caches[a] # _robots_caches[b])
    /\ [][/\ \A id \in SiteIds :
               _robots_caches'[id] # _robots_caches[id] =>
                   \E w \in Workers :
                       pc[w] = "L62" /\ pc'[w] = "L73" /\ site[w].id = id
          /\ \A i \in 1..Len(heap) :
               /\ heap'[i].session = heap[i].session
               /\ heap'[i].rules # heap[i].rules =>
                     \E w \in Workers :
                         /\ invocations'[w] # invocations[w]
                         /\ site[w].id = heap[i].site_id
                         /\ _robots_caches[site[w].id] = i]_vars

\* both sites have an entry while the two threads are in calls for different
\* sites
C17_Witness ==
    /\ \A id \in SiteIds : HasKey(id)
    /\ \E w, v \in Workers :
          /\ site[w].id # site[v].id
          /\ pc[w] = "L73"
          /\ pc[v] = "L73"

\* ---- C18 ----------------------------------------------------------------
\* C18: the step of a call for a site with ignore_robots set leaves
\* _robots_caches and the RobotsCaches as they were and ends the call; an
\* entry is only ever stored by a call made with ignore_robots unset.
C18_IgnoreLeavesRegistry ==
    [][/\ \A w \in Workers :
            (ncalls'[w] # ncalls[w] /\ site'[w].ignore_robots) =>
                /\ _robots_caches' = _robots_caches
                /\ heap' = heap
                /\ pc'[w] = "done"
       /\ \A id \in SiteIds :
            _robots_caches'[id] # _robots_caches[id] =>
                \E w \in Workers :
                    /\ pc[w] = "L62"
                    /\ pc'[w] # pc[w]
                    /\ site[w].id = id
                    /\ ~site[w].ignore_robots]_vars

\* a call ignoring robots has ended and its site has no entry yet, which the
\* other thread, with ignore_robots unset, is about to store
C18_Witness ==
    \E w, v \in Workers :
        /\ site[w].ignore_robots
        /\ pc[w] = "done"
        /\ site[v].id = site[w].id
        /\ ~site[v].ignore_robots
        /\ pc[v] = "L62"
        /\ ~HasKey(site[w].id)

====
